---- MODULE Spec2Model ----
(***************************************************************************)
(* Byte-level BPE: the trainer (cs336_basics/train_bpe.py) and the         *)
(* tokenizer (cs336_basics/tokenizer.py).                                  *)
(*                                                                         *)
(* A str is a sequence of code points, a bytes object a sequence of byte   *)
(* values 0..255.  A dict is a function; where the code depends on a       *)
(* dict's insertion order the model says so at the definition.             *)
(***************************************************************************)
EXTENDS Integers, Sequences, FiniteSets, TLC

(***************************************************************************)
(* Bounds of the model.                                                    *)
(***************************************************************************)
\* pieces in a text given to encode
MaxPieces == 3
\* chunks in an iterable given to encode_iterable
MaxChunks == 2
\* pieces in a training corpus
MaxCorpus == 4
\* the largest target vocab_size tried is 256 + MaxGrow
MaxGrow == 3
\* encode_iterable's buffer threshold; 1024 in the code (tokenizer.py:208,216,217),
\* scaled down so that texts of a few characters reach the forced flush
FlushSize == 2

\* ids in a list given to decode
MaxIds == 3

(***************************************************************************)
(* Generic helpers.                                                        *)
(***************************************************************************)
Range(f) == {f[x] : x \in DOMAIN f}

SetMax(S) == CHOOSE x \in S : (x + 1) \notin S /\ \A y \in S : y <= x

RECURSIVE Concat(_)
\* "".join(seqs)
Concat(seqs) ==
    IF seqs = <<>> THEN <<>> ELSE Head(seqs) \o Concat(Tail(seqs))

\* sequences over S of length 0..n
SeqsUpTo(S, n) == UNION {[1..k -> S] : k \in 0..n}

\* the slice without its first element
SliceSkipsOne(s, i, j) == SubSeq(s, i + 2, j)

\* s[i:j] of Python, 0-based half-open, on a 1-based sequence
Slice(s, i, j) == SubSeq(s, i + 1, j)

\* Python's comparison of two bytes objects (also of two int tuples)
RECURSIVE BytesLess(_, _)
BytesLess(x, y) ==
    IF y = <<>> THEN FALSE
    ELSE IF x = <<>> THEN TRUE
    ELSE IF Head(x) # Head(y) THEN Head(x) < Head(y)
    ELSE BytesLess(Tail(x), Tail(y))

(***************************************************************************)
(* str.encode("utf-8") for code points below U+10000.                      *)
(***************************************************************************)
Utf8Char(c) ==
    IF c < 128 THEN <<c>>
    ELSE IF c < 2048 THEN <<192 + (c \div 64), 128 + (c % 64)>>
    ELSE <<224 + (c \div 4096), 128 + ((c \div 64) % 64), 128 + (c % 64)>>

RECURSIVE Utf8(_)
Utf8(s) == IF s = <<>> THEN <<>> ELSE Utf8Char(Head(s)) \o Utf8(Tail(s))

(***************************************************************************)
(* bytes.decode("utf-8", errors="replace"): every maximal ill-formed       *)
(* subsequence becomes one U+FFFD (65533).                                 *)
(***************************************************************************)
IsCont(b) == b >= 128 /\ b <= 191

\* number of bytes the lead byte announces, 0 for a byte that cannot lead
LeadLen(b) ==
    IF b < 128 THEN 1
    ELSE IF b >= 194 /\ b <= 223 THEN 2
    ELSE IF b >= 224 /\ b <= 239 THEN 3
    ELSE IF b >= 240 /\ b <= 244 THEN 4
    ELSE 0

\* the second byte a lead byte accepts
SecondOk(lead, b) ==
    IF lead = 224 THEN b >= 160 /\ b <= 191
    ELSE IF lead = 237 THEN b >= 128 /\ b <= 159
    ELSE IF lead = 240 THEN b >= 144 /\ b <= 191
    ELSE IF lead = 244 THEN b >= 128 /\ b <= 143
    ELSE IsCont(b)

\* length of the longest well-formed prefix of the sequence starting at bs[i]
RECURSIVE GoodPrefix(_, _, _, _)
GoodPrefix(bs, i, k, need) ==
    IF k = need \/ i + k > Len(bs) THEN k
    ELSE IF k = 1 /\ SecondOk(bs[i], bs[i + 1]) THEN GoodPrefix(bs, i, 2, need)
    ELSE IF k > 1 /\ IsCont(bs[i + k]) THEN GoodPrefix(bs, i, k + 1, need)
    ELSE k

CodePoint(bs, i, n) ==
    IF n = 1 THEN bs[i]
    ELSE IF n = 2 THEN (bs[i] - 192) * 64 + (bs[i + 1] - 128)
    ELSE IF n = 3 THEN (bs[i] - 224) * 4096 + (bs[i + 1] - 128) * 64 + (bs[i + 2] - 128)
    ELSE (bs[i] - 240) * 262144 + (bs[i + 1] - 128) * 4096
         + (bs[i + 2] - 128) * 64 + (bs[i + 3] - 128)

RECURSIVE Utf8DecodeFrom(_, _)
Utf8DecodeFrom(bs, i) ==
    IF i > Len(bs) THEN <<>>
    ELSE LET need == LeadLen(bs[i])
         IN  IF need = 0 THEN <<65533>> \o Utf8DecodeFrom(bs, i + 1)
             ELSE LET k == GoodPrefix(bs, i, 1, need)
                  IN  IF k = need
                      THEN <<CodePoint(bs, i, need)>> \o Utf8DecodeFrom(bs, i + need)
                      ELSE <<65533>> \o Utf8DecodeFrom(bs, i + k)

Utf8Decode(bs) == Utf8DecodeFrom(bs, 1)

(***************************************************************************)
(* The pre-tokenization pattern PAT, on the code points below U+0100:      *)
(*   '(?:[sdmt]|ll|ve|re)| ?\p{L}+| ?\p{N}+| ?[^\s\p{L}\p{N}]+|\s+(?!\S)|\s+ *)
(***************************************************************************)
\* "S" for \s, "L" for \p{L}, "N" for \p{N}, "O" for [^\s\p{L}\p{N}]
CharClass(c) ==
    IF c \in 9..13 \/ c \in 28..32 \/ c \in {133, 160} THEN "S"
    ELSE IF \/ c \in 65..90 \/ c \in 97..122 \/ c \in {170, 181, 186}
            \/ c \in 192..214 \/ c \in 216..246 \/ c \in 248..255 THEN "L"
    ELSE IF c \in 48..57 \/ c \in {178, 179, 185, 188, 189, 190} THEN "N"
    ELSE "O"

\* length of the run of characters of class cls starting at t[i]
RECURSIVE RunLen(_, _, _)
RunLen(t, i, cls) ==
    IF i > Len(t) \/ CharClass(t[i]) # cls THEN 0
    ELSE 1 + RunLen(t, i + 1, cls)

\* '(?:[sdmt]|ll|ve|re)
AltContraction(t, i) ==
    IF t[i] # 39 \/ i + 1 > Len(t) THEN 0
    ELSE IF t[i + 1] \in {115, 100, 109, 116} THEN 2
    ELSE IF i + 2 <= Len(t)
            /\ <<t[i + 1], t[i + 2]>> \in {<<108, 108>>, <<118, 101>>, <<114, 101>>}
         THEN 3
    ELSE 0

\* " ?X+" for a class X: the optional space is taken when a run of X follows it
AltOptSpaceRun(t, i, cls) ==
    IF t[i] = 32 /\ RunLen(t, i + 1, cls) > 0 THEN 1 + RunLen(t, i + 1, cls)
    ELSE RunLen(t, i, cls)

\* \s+(?!\S): the whole run at the end of the text, else the run less its last
\* character (the lookahead fails before a non-space and \s+ gives one back)
AltSpaceNotBeforeWord(t, i) ==
    LET r == RunLen(t, i, "S")
    IN  IF r = 0 THEN 0
        ELSE IF i + r > Len(t) THEN r
        ELSE r - 1

\* length of the match of PAT at t[i]: the first alternative that matches; 0 if none
MatchLen(t, i) ==
    IF AltContraction(t, i) > 0 THEN AltContraction(t, i)
    ELSE IF AltOptSpaceRun(t, i, "L") > 0 THEN AltOptSpaceRun(t, i, "L")
    ELSE IF AltOptSpaceRun(t, i, "N") > 0 THEN AltOptSpaceRun(t, i, "N")
    ELSE IF AltOptSpaceRun(t, i, "O") > 0 THEN AltOptSpaceRun(t, i, "O")
    ELSE IF AltSpaceNotBeforeWord(t, i) > 0 THEN AltSpaceNotBeforeWord(t, i)
    ELSE RunLen(t, i, "S")

\* re.findall(PAT, t) / re.finditer(PAT, t): the matches from t[i] on, left to
\* right; a position where nothing matches is skipped
RECURSIVE FindAllFrom(_, _)
FindAllFrom(t, i) ==
    IF i > Len(t) THEN <<>>
    ELSE LET n == MatchLen(t, i)
         IN  IF n = 0 THEN FindAllFrom(t, i + 1)
             ELSE <<SubSeq(t, i, i + n - 1)>> \o FindAllFrom(t, i + n)

PreTokenize(t) == FindAllFrom(t, 1)

(***************************************************************************)
(* Tokenizer.__init__                                                      *)
(***************************************************************************)
\* the reverse map of the entries with ids lo..hi; where two ids carry the same
\* bytes the greater id is kept
RECURSIVE ReverseVocabOver(_, _, _)
ReverseVocabOver(v, lo, hi) ==
    IF lo > hi THEN <<>>
    ELSE IF lo = hi THEN (IF lo \in DOMAIN v THEN v[lo] :> lo ELSE <<>>)
    ELSE LET mid == (lo + hi) \div 2
         IN  ReverseVocabOver(v, mid + 1, hi) @@ ReverseVocabOver(v, lo, mid)

\* {v: k for k, v in vocab.items()}: a byte sequence that several ids carry keeps
\* the id inserted last; the vocabularies given here are inserted in id order
ReverseVocab(v) ==
    IF DOMAIN v = {} THEN <<>> ELSE ReverseVocabOver(v, 0, SetMax(DOMAIN v))

\* d[key] = value on a dict: the key is added, or its value is replaced
DictSet(d, key, value) ==
    [k \in DOMAIN d \cup {key} |-> IF k = key THEN value ELSE d[k]]

\* every special token given a fresh id, whether its bytes have one or not
RECURSIVE RegisterSpecialsAlways(_, _, _, _, _)
RegisterSpecialsAlways(v, b2i, next, specials, i) ==
    IF i > Len(specials) THEN [vocab |-> v, byte_to_id |-> b2i]
    ELSE RegisterSpecialsAlways(DictSet(v, next, Utf8(specials[i])),
                                DictSet(b2i, Utf8(specials[i]), next),
                                next + 1, specials, i + 1)

\* the loop over special_tokens (lines 26-31): the state after the tokens from
\* specials[i] on have been handled
RECURSIVE RegisterSpecials(_, _, _, _, _)
RegisterSpecials(v, b2i, next, specials, i) ==
    IF i > Len(specials) THEN [vocab |-> v, byte_to_id |-> b2i]
    ELSE LET special_bytes == Utf8(specials[i])
         IN  IF special_bytes \notin DOMAIN b2i
             THEN RegisterSpecials(DictSet(v, next, special_bytes),
                                   DictSet(b2i, special_bytes, next),
                                   next + 1, specials, i + 1)
             ELSE RegisterSpecials(v, b2i, next, specials, i + 1)

\* the loop over merges (lines 37-47): the rules whose two parts and whose
\* concatenation have an id; every other rule is passed over in silence
BuildMergeDict(ms, b2i) ==
    LET ok == {k \in 1..Len(ms) :
                 /\ ms[k][1] \in DOMAIN b2i
                 /\ ms[k][2] \in DOMAIN b2i
                 /\ (ms[k][1] \o ms[k][2]) \in DOMAIN b2i}
        keys == {<<b2i[ms[k][1]], b2i[ms[k][2]]>> : k \in ok}
    IN  [p \in keys |->
           LET last == SetMax({k \in ok : <<b2i[ms[k][1]], b2i[ms[k][2]]>> = p})
           IN  b2i[ms[last][1] \o ms[last][2]]]

(***************************************************************************)
(* Tokenizer._encode_text                                                  *)
(***************************************************************************)
\* lines 158-160: one id per byte, the byte value itself when the byte has no id
InitialIds(bs, b2i) ==
    [k \in 1..Len(bs) |-> IF <<bs[k]>> \in DOMAIN b2i THEN b2i[<<bs[k]>>] ELSE bs[k]]

\* lines 174-185: one left-to-right pass replacing (token1_id, token2_id)
RECURSIVE ApplyMergeFrom(_, _, _, _, _)
ApplyMergeFrom(seq, i, token1_id, token2_id, merged_id) ==
    IF i > Len(seq) THEN <<>>
    ELSE IF i < Len(seq) /\ seq[i] = token1_id /\ seq[i + 1] = token2_id
         THEN <<merged_id>> \o ApplyMergeFrom(seq, i + 2, token1_id, token2_id, merged_id)
         ELSE <<seq[i]>> \o ApplyMergeFrom(seq, i + 1, token1_id, token2_id, merged_id)

\* the pass with "i += 1" after a replacement: the right token is read again
RECURSIVE ApplyMergeStepOne(_, _, _, _, _)
ApplyMergeStepOne(seq, i, token1_id, token2_id, merged_id) ==
    IF i > Len(seq) THEN <<>>
    ELSE IF i < Len(seq) /\ seq[i] = token1_id /\ seq[i + 1] = token2_id
         THEN <<merged_id>> \o ApplyMergeStepOne(seq, i + 1, token1_id, token2_id, merged_id)
         ELSE <<seq[i]>> \o ApplyMergeStepOne(seq, i + 1, token1_id, token2_id, merged_id)

ApplyMergeKeepsRight(seq, token1_id, token2_id, merged_id) ==
    ApplyMergeStepOne(seq, 1, token1_id, token2_id, merged_id)

ApplyMerge(seq, token1_id, token2_id, merged_id) ==
    ApplyMergeFrom(seq, 1, token1_id, token2_id, merged_id)

\* lines 163-185: the rules from ms[k] on, in list order, each tried once
RECURSIVE ReplayMergesFrom(_, _, _, _)
ReplayMergesFrom(seq, ms, k, b2i) ==
    IF k > Len(ms) THEN seq
    ELSE LET token1_bytes == ms[k][1]
             token2_bytes == ms[k][2]
             merged_bytes == token1_bytes \o token2_bytes
         IN  IF \/ token1_bytes \notin DOMAIN b2i
                \/ token2_bytes \notin DOMAIN b2i
                \/ merged_bytes \notin DOMAIN b2i
             THEN ReplayMergesFrom(seq, ms, k + 1, b2i)
             ELSE ReplayMergesFrom(
                      ApplyMerge(seq, b2i[token1_bytes], b2i[token2_bytes],
                                 b2i[merged_bytes]),
                      ms, k + 1, b2i)

\* the rules replayed last to first
ReplayMergesReversed(seq, ms, b2i) ==
    ReplayMergesFrom(seq, [k \in 1..Len(ms) |-> ms[Len(ms) + 1 - k]], 1, b2i)

ReplayMerges(seq, ms, b2i) == ReplayMergesFrom(seq, ms, 1, b2i)

\* the ids of the bytes, no rule replayed
EncodePreTokenNoMerges(pre_token, ms, b2i) == InitialIds(Utf8(pre_token), b2i)

\* lines 153-187 for one pre-token
EncodePreToken(pre_token, ms, b2i) ==
    ReplayMerges(InitialIds(Utf8(pre_token), b2i), ms, b2i)

RECURSIVE EncodePreTokens(_, _, _)
EncodePreTokens(pre_tokens, ms, b2i) ==
    IF pre_tokens = <<>> THEN <<>>
    ELSE EncodePreToken(Head(pre_tokens), ms, b2i)
         \o EncodePreTokens(Tail(pre_tokens), ms, b2i)

EncodeText(t, ms, b2i) ==
    IF t = <<>> THEN <<>> ELSE EncodePreTokens(PreTokenize(t), ms, b2i)

(***************************************************************************)
(* Tokenizer.encode                                                        *)
(***************************************************************************)
\* whether the literal lit occurs in t at position i
LiteralAt(t, i, lit) ==
    i + Len(lit) - 1 <= Len(t) /\ SubSeq(t, i, i + Len(lit) - 1) = lit

\* the alternation "tok1|tok2|..." at position i: the index of the first
\* alternative, in list order, that matches there; 0 if none does
AltMatchAt(t, i, specials) ==
    LET hits == {k \in 1..Len(specials) : LiteralAt(t, i, specials[k])}
    IN  IF hits = {} THEN 0 ELSE CHOOSE k \in hits : \A j \in hits : k <= j

\* re.split(f'({special_pattern})', text) from position i, the current plain
\* span having started at position from: plain spans and delimiters alternate
RECURSIVE SplitKeepFrom(_, _, _, _)
SplitKeepFrom(t, from, i, specials) ==
    IF i > Len(t) THEN <<SubSeq(t, from, Len(t))>>
    ELSE LET k == AltMatchAt(t, i, specials)
         IN  IF k = 0 THEN SplitKeepFrom(t, from, i + 1, specials)
             ELSE <<SubSeq(t, from, i - 1), specials[k]>>
                  \o SplitKeepFrom(t, i + Len(specials[k]), i + Len(specials[k]), specials)

SplitKeep(t, specials) == SplitKeepFrom(t, 1, 1, specials)

\* lines 119-130: the ids of the parts from parts[n] on
RECURSIVE EncodeParts(_, _, _, _, _)
EncodeParts(parts, n, specials, ms, b2i) ==
    IF n > Len(parts) THEN <<>>
    ELSE LET part == parts[n]
             rest == EncodeParts(parts, n + 1, specials, ms, b2i)
         IN  IF part = <<>> THEN rest
             ELSE IF part \in Range(specials)
                  THEN IF Utf8(part) \in DOMAIN b2i
                       THEN <<b2i[Utf8(part)]>> \o rest
                       ELSE rest
                  ELSE EncodeText(part, ms, b2i) \o rest

\* encode without the test of line 108, the id of the first special token
\* appended as an end marker
EncodeWithEndMarker(t, specials, ms, b2i) ==
    (IF specials # <<>>
     THEN EncodeParts(SplitKeep(t, specials), 1, specials, ms, b2i)
     ELSE EncodeText(t, ms, b2i))
    \o (IF specials # <<>> THEN <<b2i[Utf8(specials[1])]>> ELSE <<>>)

EncodeWith(t, specials, ms, b2i) ==
    IF t = <<>> THEN <<>>
    ELSE IF specials # <<>>
         THEN EncodeParts(SplitKeep(t, specials), 1, specials, ms, b2i)
         ELSE EncodeText(t, ms, b2i)

(***************************************************************************)
(* Tokenizer.decode                                                        *)
(***************************************************************************)
\* the bytes of the ids up to the first id that is not in the vocabulary
RECURSIVE TokenBytesStopAtUnknown(_, _)
TokenBytesStopAtUnknown(token_ids, v) ==
    IF token_ids = <<>> \/ Head(token_ids) \notin DOMAIN v THEN <<>>
    ELSE v[Head(token_ids)] \o TokenBytesStopAtUnknown(Tail(token_ids), v)

\* lines 242-249: the bytes of the ids that are in the vocabulary
RECURSIVE TokenBytes(_, _)
TokenBytes(token_ids, v) ==
    IF token_ids = <<>> THEN <<>>
    ELSE (IF Head(token_ids) \in DOMAIN v THEN v[Head(token_ids)] ELSE <<>>)
         \o TokenBytes(Tail(token_ids), v)

\* every id decoded on its own, the texts concatenated
RECURSIVE DecodeEachId(_, _)
DecodeEachId(token_ids, v) ==
    IF token_ids = <<>> THEN <<>>
    ELSE Utf8Decode(TokenBytes(<<Head(token_ids)>>, v)) \o DecodeEachId(Tail(token_ids), v)

DecodeWith(token_ids, v) ==
    IF token_ids = <<>> THEN <<>> ELSE Utf8Decode(TokenBytes(token_ids, v))

(***************************************************************************)
(* Inputs.  97 a, 98 b, 32 space, 10 newline, 60 <, 88 X, 62 >, 233 e-acute *)
(* (UTF-8: 195 169).                                                       *)
(***************************************************************************)
\* {i: bytes([i]) for i in range(256)} followed by the entries, in id order
VocabOf(entries) ==
    [i \in 0..(255 + Len(entries)) |-> IF i < 256 THEN <<i>> ELSE entries[i - 255]]

\* the (vocab, merges) pairs a Tokenizer is built from
Artifacts ==
    { [vocab |-> VocabOf(<<>>), merges |-> <<>>],
      [vocab |-> VocabOf(<< <<97, 98>>, <<98, 97>> >>),
       merges |-> << <<(<<97>>), (<<98>>)>>, <<(<<98>>), (<<97>>)>> >>],
      [vocab |-> VocabOf(<< <<97, 98>>, <<98, 97>> >>),
       merges |-> << <<(<<98>>), (<<97>>)>>, <<(<<97>>), (<<98>>)>> >>],
      [vocab |-> VocabOf(<< <<97, 97>>, <<97, 97, 97>> >>),
       merges |-> << <<(<<97>>), (<<97>>)>>, <<(<<97, 97>>), (<<97>>)>> >>],
      [vocab |-> VocabOf(<< <<10, 10>>, <<32, 97>> >>),
       merges |-> << <<(<<10>>), (<<10>>)>>, <<(<<32>>), (<<97>>)>> >>],
      \* the concatenation of the second rule, "aba", has no entry
      [vocab |-> VocabOf(<< <<97, 98>> >>),
       merges |-> << <<(<<97>>), (<<98>>)>>, <<(<<97, 98>>), (<<97>>)>> >>],
      [vocab |-> VocabOf(<< <<195, 169>> >>),
       merges |-> << <<(<<195>>), (<<169>>)>> >>],
      \* id 256 repeats the bytes of id 97
      [vocab |-> VocabOf(<< <<97>>, <<97, 98>> >>),
       merges |-> << <<(<<97>>), (<<98>>)>> >>],
      \* the byte 98 has no entry
      [vocab |-> [i \in (0..255) \ {98} |-> <<i>>], merges |-> <<>>] }

\* the special_tokens lists a Tokenizer is built with: none, "<X>", "<X>" and
\* "<X><X>" in both orders, "a", whose bytes are a base entry, and "<X>" with "a"
TokenizerSpecials ==
    { <<>>,
      << <<60, 88, 62>> >>,
      << <<60, 88, 62>>, <<60, 88, 62, 60, 88, 62>> >>,
      << <<60, 88, 62, 60, 88, 62>>, <<60, 88, 62>> >>,
      << <<97>> >>,
      << <<60, 88, 62>>, <<97>> >> }

\* the texts given to encode: up to MaxPieces of these pieces
Pieces == { <<97>>, <<98>>, <<32>>, <<10>>, <<60, 88, 62>>, <<233>> }

Texts == {Concat(ps) : ps \in SeqsUpTo(Pieces, MaxPieces)}

\* the id lists given to decode: up to MaxIds of -1, which no vocabulary has, a,
\* b, the two bytes of e-acute, and 256
DecodeIds == {-1, 97, 98, 169, 195, 256}

IdLists == SeqsUpTo(DecodeIds, MaxIds)

\* the iterables given to encode_iterable: up to MaxChunks of these chunks
Chunks == { <<97, 10>>, <<10>>, <<98>>, <<32, 98>>, <<97, 10, 10>>, <<97, 98>>,
            <<233, 60, 88, 62>> }

Iterables == SeqsUpTo(Chunks, MaxChunks)

(***************************************************************************)
(* State.                                                                  *)
(***************************************************************************)
VARIABLES
    pc,              \* where the tokenizer's client is
    in_vocab,        \* the arguments of Tokenizer(vocab, merges, special_tokens)
    in_merges,
    in_special,
    vocab,           \* self.vocab
    byte_to_id,      \* self.byte_to_id
    merge_dict,      \* self.merge_dict
    merges,          \* self.merges
    special_tokens,  \* self.special_tokens
    text,            \* the argument of the last encode(text)
    ids,             \* what encode returned
    decoded,         \* what decode(ids) returned
    iterable,        \* the argument of encode_iterable
    chunk_idx,       \* chunks of iterable the for loop has taken
    buffer,          \* encode_iterable's buffer
    flushed,         \* the texts encode_iterable has passed to encode, in order
    yielded          \* the ids encode_iterable has yielded, in order

tokVars == <<pc, in_vocab, in_merges, in_special, vocab, byte_to_id, merge_dict,
             merges, special_tokens, text, ids, decoded, iterable, chunk_idx,
             buffer, flushed, yielded>>

selfVars == <<vocab, byte_to_id, merge_dict, merges, special_tokens>>
argVars == <<in_vocab, in_merges, in_special>>
encodeVars == <<text, ids, decoded>>
streamVars == <<iterable, chunk_idx, buffer, flushed, yielded>>

VARIABLES
    tr_pc,           \* where train_bpe is
    run,             \* 1 in the first call, 2 in the second call on the same arguments
    input_text,      \* the text of input_path
    vocab_size,      \* the arguments
    tr_special,
    token_counter,   \* the locals of train_bpe
    tr_vocab,
    next_token_id,
    tr_merges,
    first_result     \* what the first call returned

trainVars == <<tr_pc, run, input_text, vocab_size, tr_special, token_counter,
               tr_vocab, next_token_id, tr_merges, first_result>>

trainArgs == <<input_text, vocab_size, tr_special>>

VARIABLES
    files,           \* the output directory of the training driver: name -> content
    vocab_filepath,  \* the arguments of the last Tokenizer.from_files
    merges_filepath

driverVars == <<files, vocab_filepath, merges_filepath>>

VARIABLES
    call_pc,         \* per concurrent caller of one Tokenizer: where its call is
    call_op,         \* the method it called
    call_arg,        \* the argument
    frames,          \* the local variables of the calls, per frame
    call_result,     \* what the call returned
    call_overlap     \* history: another caller took a step while the call ran

callVars == <<call_pc, call_op, call_arg, frames, call_result, call_overlap>>

vars == <<tokVars, trainVars, driverVars, callVars>>

\* no concurrent caller exists
CallIdle ==
    /\ call_pc = <<>> /\ call_op = <<>> /\ call_arg = <<>>
    /\ frames = <<>> /\ call_result = <<>> /\ call_overlap = <<>>

\* nothing has been saved, from_files has not been called
DriverIdle == files = <<>> /\ vocab_filepath = <<>> /\ merges_filepath = <<>>

\* train_bpe is not running
TrainIdle ==
    /\ tr_pc = "idle" /\ run = 0
    /\ input_text = <<>> /\ vocab_size = 0 /\ tr_special = <<>>
    /\ token_counter = <<>> /\ tr_vocab = <<>> /\ next_token_id = 0
    /\ tr_merges = <<>> /\ first_result = <<>>

\* no Tokenizer is in use
TokIdle ==
    /\ pc = "idle"
    /\ in_vocab = <<>> /\ in_merges = <<>> /\ in_special = <<>>
    /\ vocab = <<>> /\ byte_to_id = <<>> /\ merge_dict = <<>>
    /\ merges = <<>> /\ special_tokens = <<>>
    /\ text = <<>> /\ ids = <<>> /\ decoded = <<>>
    /\ iterable = <<>> /\ chunk_idx = 0 /\ buffer = <<>>
    /\ flushed = <<>> /\ yielded = <<>>

\* a client holding the arguments, before Tokenizer(...) is called
TokInit ==
    /\ pc = "new"
    /\ \E a \in Artifacts : in_vocab = a.vocab /\ in_merges = a.merges
    /\ in_special \in TokenizerSpecials
    /\ vocab = <<>> /\ byte_to_id = <<>> /\ merge_dict = <<>>
    /\ merges = <<>> /\ special_tokens = <<>>
    /\ text = <<>> /\ ids = <<>> /\ decoded = <<>>
    /\ iterable = <<>> /\ chunk_idx = 0 /\ buffer = <<>>
    /\ flushed = <<>> /\ yielded = <<>>

\* Tokenizer.__init__: it has no raise statement and returns for every argument
Construct ==
    /\ pc = "new"
    /\ LET b2i0 == ReverseVocab(in_vocab)
           first_free_id == IF DOMAIN in_vocab # {} THEN SetMax(DOMAIN in_vocab) + 1 ELSE 0
           reg == RegisterSpecials(in_vocab, b2i0, first_free_id, in_special, 1)
       IN  /\ vocab' = reg.vocab
           /\ byte_to_id' = reg.byte_to_id
           /\ merge_dict' = BuildMergeDict(in_merges, reg.byte_to_id)
    /\ merges' = in_merges
    /\ special_tokens' = in_special
    /\ pc' = "ready"
    /\ UNCHANGED <<argVars, encodeVars, streamVars, trainVars, driverVars, callVars>>

\* Tokenizer.encode(text)
Encode ==
    /\ pc = "ready"
    /\ \E t \in Texts :
         /\ text' = t
         /\ ids' = EncodeWith(t, special_tokens, merges, byte_to_id)
    /\ pc' = "encoded"
    /\ UNCHANGED <<argVars, selfVars, decoded, streamVars, trainVars, driverVars, callVars>>

\* Tokenizer.decode(ids) of the ids encode returned
Decode ==
    /\ pc = "encoded"
    /\ decoded' = DecodeWith(ids, vocab)
    /\ pc' = "decoded"
    /\ UNCHANGED <<argVars, selfVars, text, ids, streamVars, trainVars, driverVars, callVars>>

\* Tokenizer.decode(ids) of any list of integers
DecodeAny ==
    /\ pc = "ready"
    /\ \E token_ids \in IdLists :
         /\ ids' = token_ids
         /\ decoded' = DecodeWith(token_ids, vocab)
    /\ pc' = "decoded_ids"
    /\ UNCHANGED <<argVars, selfVars, text, streamVars, trainVars, driverVars, callVars>>

\* the condition of the while loop (line 208)
MustFlush(buf) == 10 \in Range(buf) \/ Len(buf) > FlushSize

\* buffer.find('\n'), 0-based: the first newline
FirstNewline(buf) == (CHOOSE k \in 1..Len(buf) : buf[k] = 10 /\ \A j \in 1..(k - 1) : buf[j] # 10) - 1

\* buffer.rfind('\n'), 0-based; called only when there is a newline
LastNewline(buf) == SetMax({k \in 1..Len(buf) : buf[k] = 10}) - 1

\* encode_iterable(iterable): the generator is created, nothing has run yet
StreamStart ==
    /\ pc = "ready"
    /\ iterable' \in Iterables
    /\ chunk_idx' = 0 /\ buffer' = <<>> /\ flushed' = <<>> /\ yielded' = <<>>
    /\ pc' = "stream_for"
    /\ UNCHANGED <<argVars, selfVars, encodeVars, trainVars, driverVars, callVars>>

\* the for loop takes the next chunk (lines 203-204): where the generator goes
\* and what it holds
StreamPullControl ==
    /\ pc = "stream_for"
    /\ chunk_idx < Len(iterable)
    /\ chunk_idx' = chunk_idx + 1
    /\ buffer' = buffer \o iterable[chunk_idx + 1]
    /\ pc' = IF MustFlush(buffer') THEN "stream_while" ELSE "stream_for"

\* the for loop takes the next chunk (lines 203-204)
StreamPull ==
    /\ StreamPullControl
    /\ UNCHANGED <<argVars, selfVars, encodeVars, iterable, flushed, yielded, trainVars, driverVars, callVars>>

\* one turn of the while loop (lines 208-218): where the generator goes and
\* what it holds
StreamFlushControl ==
    /\ pc = "stream_while"
    /\ LET cut == IF 10 \in Range(buffer) THEN LastNewline(buffer) + 1 ELSE FlushSize
       IN  buffer' = Slice(buffer, cut, Len(buffer))
    /\ pc' = IF MustFlush(buffer') THEN "stream_while" ELSE "stream_for"
    /\ chunk_idx' = chunk_idx

\* one turn of the while loop (lines 208-221)
StreamFlush ==
    /\ StreamFlushControl
    /\ LET cut == IF 10 \in Range(buffer) THEN LastNewline(buffer) + 1 ELSE FlushSize
           to_process == Slice(buffer, 0, cut)
       IN  /\ flushed' = IF to_process # <<>> THEN Append(flushed, to_process) ELSE flushed
           /\ yielded' = IF to_process # <<>>
                         THEN yielded \o EncodeWith(to_process, special_tokens, merges, byte_to_id)
                         ELSE yielded
    /\ UNCHANGED <<argVars, selfVars, encodeVars, iterable, trainVars, driverVars, callVars>>

\* the iterable is exhausted (line 203): the generator goes to its end
StreamEndControl ==
    /\ pc = "stream_for"
    /\ chunk_idx = Len(iterable)
    /\ pc' = "stream_done"
    /\ UNCHANGED <<chunk_idx, buffer>>

\* the iterable is exhausted: the rest of the buffer (lines 224-226)
StreamEnd ==
    /\ StreamEndControl
    /\ flushed' = IF buffer # <<>> THEN Append(flushed, buffer) ELSE flushed
    /\ yielded' = IF buffer # <<>>
                  THEN yielded \o EncodeWith(buffer, special_tokens, merges, byte_to_id)
                  ELSE yielded
    /\ UNCHANGED <<argVars, selfVars, encodeVars, iterable, trainVars, driverVars, callVars>>

\* decode(list(encode_iterable(iterable))): the generator has been drained
StreamDecode ==
    /\ pc = "stream_done"
    /\ ids' = yielded
    /\ decoded' = DecodeWith(yielded, vocab)
    /\ pc' = "stream_decoded"
    /\ UNCHANGED <<argVars, selfVars, text, streamVars, trainVars, driverVars, callVars>>

Next ==
    \/ Construct
    \/ Encode
    \/ Decode
    \/ DecodeAny
    \/ StreamStart
    \/ StreamPull
    \/ StreamFlush
    \/ StreamEnd
    \/ StreamDecode

(***************************************************************************)
(* train_bpe                                                               *)
(***************************************************************************)
\* the size of the base alphabet, range(256)
BaseSize == 256

\* the corpus size above which the pre-token counting uses a process pool
\* (100000 in line 26), scaled to the corpora below
ParallelThreshold == 2

\* the delimiters kept as spans of their own
RECURSIVE SplitDropKeepsLiteral(_, _, _, _)
SplitDropKeepsLiteral(t, from, i, specials) ==
    IF i > Len(t) THEN <<SubSeq(t, from, Len(t))>>
    ELSE LET k == AltMatchAt(t, i, specials)
         IN  IF k = 0 THEN SplitDropKeepsLiteral(t, from, i + 1, specials)
             ELSE <<SubSeq(t, from, i - 1), specials[k]>>
                  \o SplitDropKeepsLiteral(t, i + Len(specials[k]), i + Len(specials[k]), specials)

\* re.split(special_pattern, text) from position i, the current span having
\* started at position from: the delimiters are dropped
RECURSIVE SplitDropFrom(_, _, _, _)
SplitDropFrom(t, from, i, specials) ==
    IF i > Len(t) THEN <<SubSeq(t, from, Len(t))>>
    ELSE LET k == AltMatchAt(t, i, specials)
         IN  IF k = 0 THEN SplitDropFrom(t, from, i + 1, specials)
             ELSE <<SubSeq(t, from, i - 1)>>
                  \o SplitDropFrom(t, i + Len(specials[k]), i + Len(specials[k]), specials)

\* lines 22-23.  With no special token the pattern is "", which matches the empty
\* string at every position: re.split then cuts the text between every two
\* characters and at both ends (Python 3.7 and later, which the annotations of
\* train_bpe require)
SplitDrop(t, specials) ==
    IF specials = <<>>
    THEN <<(<<>>)>> \o [k \in 1..Len(t) |-> <<t[k]>>] \o <<(<<>>)>>
    ELSE SplitDropFrom(t, 1, 1, specials)

\* Counter: counter[key] += n
CounterAdd(counter, key, n) ==
    IF key \in DOMAIN counter THEN [counter EXCEPT ![key] = @ + n]
    ELSE counter @@ (key :> n)

\* lines 9-11 and 41-43: the pre-tokens of one chunk added to a counter
RECURSIVE CountMatches(_, _)
CountMatches(counter, pre_tokens) ==
    IF pre_tokens = <<>> THEN counter
    ELSE CountMatches(CounterAdd(counter, Utf8(Head(pre_tokens)), 1), Tail(pre_tokens))

\* lines 39-43: the serial path
RECURSIVE CountSerial(_, _, _)
CountSerial(counter, chunks, n) ==
    IF n > Len(chunks) THEN counter
    ELSE CountSerial(CountMatches(counter, PreTokenize(chunks[n])), chunks, n + 1)

\* chunk.strip() is not empty
HasNonSpace(chunk) == \E k \in 1..Len(chunk) : CharClass(chunk[k]) # "S"

\* lines 28-36: the pool path; pool.map keeps the order of the chunks, and the
\* sum of the chunks' counters is the counter of their pre-tokens
RECURSIVE CountParallel(_, _, _)
CountParallel(counter, chunks, n) ==
    IF n > Len(chunks) THEN counter
    ELSE IF HasNonSpace(chunks[n])
         THEN CountParallel(CountMatches(counter, PreTokenize(chunks[n])), chunks, n + 1)
         ELSE CountParallel(counter, chunks, n + 1)

RECURSIVE SumLen(_)
SumLen(chunks) == IF chunks = <<>> THEN 0 ELSE Len(Head(chunks)) + SumLen(Tail(chunks))

\* line 26: the condition of the pool path
TakesPool(chunks) == Len(chunks) > 1 /\ SumLen(chunks) > ParallelThreshold

\* line 30: with no chunk left in chunk_args, mp.Pool(processes=0) raises
\* ValueError (mp.cpu_count() is at least 1)
PoolRaises(t, specials) ==
    LET chunks == SplitDrop(t, specials)
    IN  /\ TakesPool(chunks)
        /\ \A n \in 1..Len(chunks) : ~HasNonSpace(chunks[n])

\* lines 17-43: the pre-token frequency table of a corpus
InitialCounter(t, specials) ==
    LET chunks == SplitDrop(t, specials)
    IN  IF TakesPool(chunks)
        THEN CountParallel(<<>>, chunks, 1)
        ELSE CountSerial(<<>>, chunks, 1)

\* the special tokens entered last to first
InitialVocabSpecialsReversed(specials) ==
    [i \in 0..(BaseSize + Len(specials) - 1) |->
        IF i < BaseSize THEN <<i>> ELSE Utf8(specials[Len(specials) - (i - BaseSize)])]

\* lines 46-50: the base entries, then one entry per special token, in order
InitialVocab(specials) ==
    [i \in 0..(BaseSize + Len(specials) - 1) |->
        IF i < BaseSize THEN <<i>> ELSE Utf8(specials[i - BaseSize + 1])]

\* lines 59-61 for one table entry, from position i on
RECURSIVE CountTokenPairs(_, _, _, _)
CountTokenPairs(pair_counts, token, freq, i) ==
    IF i >= Len(token) THEN pair_counts
    ELSE CountTokenPairs(CounterAdd(pair_counts, <<token[i], token[i + 1]>>, freq),
                         token, freq, i + 1)

\* lines 57-61 over the entries in todo; the sums do not depend on the order in
\* which the entries are visited
RECURSIVE CountPairs(_, _, _)
CountPairs(pair_counts, counter, todo) ==
    IF todo = {} THEN pair_counts
    ELSE LET token == CHOOSE tk \in todo : TRUE
         IN  CountPairs(CountTokenPairs(pair_counts, token, counter[token], 1),
                        counter, todo \ {token})

PairCounts(counter) == CountPairs(<<>>, counter, DOMAIN counter)

\* the key reduced to the count: pairs of equal count are not ordered
KeyLessCountOnly(c1, l1, r1, c2, l2, r2) == c1 < c2

\* the key with the byte sequences compared the other way round
KeyLessTieSmallest(c1, l1, r1, c2, l2, r2) ==
    IF c1 # c2 THEN c1 < c2
    ELSE IF l1 # l2 THEN BytesLess(l2, l1)
    ELSE BytesLess(r2, r1)

\* the key of line 67, (count, (left_bytes, right_bytes)), compared as Python
\* compares tuples
KeyLess(c1, l1, r1, c2, l2, r2) ==
    IF c1 # c2 THEN c1 < c2
    ELSE IF l1 # l2 THEN BytesLess(l1, l2)
    ELSE BytesLess(r1, r2)

\* line 67: max returns the first item, in the dict's order, that no item
\* exceeds.  The model leaves the order of pair_counts open: these are the items
\* that no item exceeds
BestPairs(pair_counts, v) ==
    {p \in DOMAIN pair_counts :
        \A q \in DOMAIN pair_counts :
            ~KeyLess(pair_counts[p], v[p[1]], v[p[2]],
                     pair_counts[q], v[q[1]], v[q[2]])}

\* lines 79-87 for one table entry, from position i on
RECURSIVE RewriteTokenFrom(_, _, _, _)
RewriteTokenFrom(token, i, best_pair, new_token_id) ==
    IF i > Len(token) THEN <<>>
    ELSE IF i < Len(token) /\ <<token[i], token[i + 1]>> = best_pair
         THEN <<new_token_id>> \o RewriteTokenFrom(token, i + 2, best_pair, new_token_id)
         ELSE <<token[i]>> \o RewriteTokenFrom(token, i + 1, best_pair, new_token_id)

\* the scan that replaces the first occurrence only
RECURSIVE RewriteTokenOnceFrom(_, _, _, _)
RewriteTokenOnceFrom(token, i, best_pair, new_token_id) ==
    IF i > Len(token) THEN <<>>
    ELSE IF i < Len(token) /\ <<token[i], token[i + 1]>> = best_pair
         THEN <<new_token_id>> \o SubSeq(token, i + 2, Len(token))
         ELSE <<token[i]>> \o RewriteTokenOnceFrom(token, i + 1, best_pair, new_token_id)

RewriteTokenFirstOnly(token, best_pair, new_token_id) ==
    RewriteTokenOnceFrom(token, 1, best_pair, new_token_id)

\* the scan run from the right end of the entry: ids 1..i
RECURSIVE RewriteTokenFromRight(_, _, _, _)
RewriteTokenFromRight(token, i, best_pair, new_token_id) ==
    IF i < 1 THEN <<>>
    ELSE IF i > 1 /\ <<token[i - 1], token[i]>> = best_pair
         THEN RewriteTokenFromRight(token, i - 2, best_pair, new_token_id) \o <<new_token_id>>
         ELSE RewriteTokenFromRight(token, i - 1, best_pair, new_token_id) \o <<token[i]>>

RewriteTokenRightmost(token, best_pair, new_token_id) ==
    RewriteTokenFromRight(token, Len(token), best_pair, new_token_id)

RewriteToken(token, best_pair, new_token_id) ==
    RewriteTokenFrom(token, 1, best_pair, new_token_id)

\* lines 77-89
RECURSIVE RewriteCounter(_, _, _, _, _)
RewriteCounter(new_counter, counter, todo, best_pair, new_token_id) ==
    IF todo = {} THEN new_counter
    ELSE LET token == CHOOSE tk \in todo : TRUE
         IN  RewriteCounter(
                 CounterAdd(new_counter, RewriteToken(token, best_pair, new_token_id),
                            counter[token]),
                 counter, todo \ {token}, best_pair, new_token_id)

\* "while len(vocab) <= vocab_size"
LoopConditionOffByOne(v, size) == Cardinality(DOMAIN v) <= size

\* line 55: while len(vocab) < vocab_size
LoopCondition(v, size) == Cardinality(DOMAIN v) < size

\* the new token stored under the id before the free one
SetEntryBelow(v, new_token_id, new_token) ==
    [k \in DOMAIN v |-> IF k = new_token_id - 1 THEN new_token ELSE v[k]]

\* the new token stored with its bytes in reverse order
SetEntryReversed(v, new_token_id, new_token) ==
    [k \in DOMAIN v \cup {new_token_id} |->
        IF k = new_token_id
        THEN [n \in 1..Len(new_token) |-> new_token[Len(new_token) + 1 - n]]
        ELSE v[k]]

\* line 73: vocab[new_token_id] = new_token
SetEntry(v, new_token_id, new_token) ==
    [k \in DOMAIN v \cup {new_token_id} |-> IF k = new_token_id THEN new_token ELSE v[k]]

\* the corpora: up to MaxCorpus of these pieces (a, b, space, "<X>")
CorpusPieces == { <<97>>, <<98>>, <<32>>, <<60, 88, 62>> }

Corpora == {Concat(ps) : ps \in SeqsUpTo(CorpusPieces, MaxCorpus)}

\* the special_tokens lists: none, "<X>", and "<X>" with "a", whose bytes are
\* those of a base entry
TrainSpecials == { <<>>, << <<60, 88, 62>> >>, << <<60, 88, 62>>, <<97>> >> }

\* the target sizes tried with a list of specials: from one below the initial
\* size of the vocabulary to MaxGrow above it
TargetSizes(specials) ==
    (BaseSize + Len(specials) - 1) .. (BaseSize + Len(specials) + MaxGrow)

\* train_bpe(input_path, vocab_size, special_tokens) is called
TrainInit ==
    /\ tr_pc = "start" /\ run = 1
    /\ input_text \in Corpora
    /\ tr_special \in TrainSpecials
    /\ vocab_size \in TargetSizes(tr_special)
    /\ token_counter = <<>> /\ tr_vocab = <<>> /\ next_token_id = 0
    /\ tr_merges = <<>> /\ first_result = <<>>

\* lines 15-52: the frequency table, the initial vocabulary, no merges; or the
\* ValueError of the empty pool
TrainSetup ==
    /\ tr_pc = "start"
    /\ IF PoolRaises(input_text, tr_special)
       THEN /\ tr_pc' = "value_error"
            /\ UNCHANGED <<token_counter, tr_vocab, next_token_id, tr_merges>>
       ELSE /\ token_counter' = InitialCounter(input_text, tr_special)
            /\ tr_vocab' = InitialVocab(tr_special)
            /\ next_token_id' = BaseSize + Len(tr_special)
            /\ tr_merges' = <<>>
            /\ tr_pc' = "loop"
    /\ UNCHANGED <<trainArgs, run, first_result, tokVars, driverVars, callVars>>

\* one turn of the main loop (lines 55-89)
TrainIter ==
    /\ tr_pc = "loop"
    /\ LoopCondition(tr_vocab, vocab_size)
    /\ LET pair_counts == PairCounts(token_counter)
       IN  /\ DOMAIN pair_counts # {}
           /\ \E best_pair \in BestPairs(pair_counts, tr_vocab) :
                LET new_token == tr_vocab[best_pair[1]] \o tr_vocab[best_pair[2]]
                    new_token_id == next_token_id
                IN  /\ tr_merges' = Append(tr_merges,
                                           <<tr_vocab[best_pair[1]], tr_vocab[best_pair[2]]>>)
                    /\ tr_vocab' = SetEntry(tr_vocab, new_token_id, new_token)
                    /\ next_token_id' = next_token_id + 1
                    /\ token_counter' = RewriteCounter(<<>>, token_counter,
                                            DOMAIN token_counter, best_pair, new_token_id)
    /\ UNCHANGED <<trainArgs, run, first_result, tr_pc, tokVars, driverVars, callVars>>

\* the loop condition of line 55 is false: return vocab, merges
TrainExit ==
    /\ tr_pc = "loop"
    /\ ~LoopCondition(tr_vocab, vocab_size)
    /\ tr_pc' = "done"
    /\ UNCHANGED <<trainArgs, run, first_result, token_counter, tr_vocab,
                   next_token_id, tr_merges, tokVars, driverVars, callVars>>

\* no pair is left: break (lines 63-64), return vocab, merges
TrainBreak ==
    /\ tr_pc = "loop"
    /\ LoopCondition(tr_vocab, vocab_size)
    /\ DOMAIN PairCounts(token_counter) = {}
    /\ tr_pc' = "done"
    /\ UNCHANGED <<trainArgs, run, first_result, token_counter, tr_vocab,
                   next_token_id, tr_merges, tokVars, driverVars, callVars>>

\* the caller keeps the result and calls train_bpe again on the same arguments
TrainAgain ==
    /\ tr_pc = "done" /\ run = 1
    /\ first_result' = <<tr_vocab, tr_merges>>
    /\ run' = 2
    /\ tr_pc' = "start"
    /\ token_counter' = <<>> /\ tr_vocab' = <<>> /\ next_token_id' = 0
    /\ tr_merges' = <<>>
    /\ UNCHANGED <<trainArgs, tokVars, driverVars, callVars>>

TrainNext ==
    \/ TrainSetup
    \/ TrainIter
    \/ TrainExit
    \/ TrainBreak
    \/ TrainAgain

(***************************************************************************)
(* Specifications.                                                         *)
(***************************************************************************)
Init == TokInit /\ TrainIdle /\ DriverIdle /\ CallIdle

\* a client of the Tokenizer
Spec == Init /\ [][Next]_vars

TrainSpecInit == TrainInit /\ TokIdle /\ DriverIdle /\ CallIdle

\* a caller of train_bpe
TrainSpec == TrainSpecInit /\ [][TrainNext]_vars

(***************************************************************************)
(* Properties of the Tokenizer, checked under Spec.                        *)
(***************************************************************************)
\* every single byte has an id
BaseBytesPresent(b2i) == \A b \in 0..255 : <<b>> \in DOMAIN b2i

\* the literal "<X>"
MarkX == <<60, 88, 62>>

\* C1: round trip.  For a tokenizer whose vocabulary holds the 256 single-byte
\* entries and a text of plain text and special-token literals, the bytes of the
\* ids encode returns concatenate to the UTF-8 bytes of the text, and decode of
\* these ids is the text.
RoundTrip ==
    (pc \in {"encoded", "decoded"} /\ BaseBytesPresent(byte_to_id))
        => /\ TokenBytes(ids, vocab) = Utf8(text)
           /\ (pc = "decoded" => decoded = text)

\* a text with a special token and a two-byte character has been encoded with a
\* merge applied and decoded
RoundTripWitness ==
    /\ pc = "decoded"
    /\ BaseBytesPresent(byte_to_id)
    /\ MarkX \in Range(special_tokens)
    /\ byte_to_id[Utf8(MarkX)] \in Range(ids)
    /\ 233 \in Range(text)
    /\ Len(ids) < Len(Utf8(text)) - 2
    /\ decoded = text

IsProperPrefix(x, y) == Len(x) < Len(y) /\ SubSeq(y, 1, Len(x)) = x

\* C2: special-token precedence.  When a registered special token is a proper
\* prefix of another, in whatever order they were registered, encoding the
\* longer literal yields exactly one id, that of the longer literal.
LongerSpecialWins ==
    pc = "encoded" =>
        \A i, j \in 1..Len(special_tokens) :
            (IsProperPrefix(special_tokens[i], special_tokens[j])
             /\ text = special_tokens[j])
                => ids = <<byte_to_id[Utf8(special_tokens[j])]>>

\* the reference replay, on byte sequences: one pass of the rule (l, r) over the
\* working sequence, left to right, without overlap
RECURSIVE RefPass(_, _, _)
RefPass(toks, l, r) ==
    IF Len(toks) < 2 THEN toks
    ELSE IF toks[1] = l /\ toks[2] = r
         THEN <<l \o r>> \o RefPass(SubSeq(toks, 3, Len(toks)), l, r)
         ELSE <<toks[1]>> \o RefPass(Tail(toks), l, r)

\* every rule once, in list order
RECURSIVE RefReplay(_, _)
RefReplay(toks, rules) ==
    IF rules = <<>> THEN toks
    ELSE RefReplay(RefPass(toks, Head(rules)[1], Head(rules)[2]), Tail(rules))

\* the reference ids of one pre-token
RefIds(pre_token, rules, b2i) ==
    LET bs == Utf8(pre_token)
        toks == RefReplay([k \in 1..Len(bs) |-> <<bs[k]>>], rules)
    IN  [k \in 1..Len(toks) |-> b2i[toks[k]]]

RECURSIVE RefIdsAll(_, _, _)
RefIdsAll(pre_tokens, rules, b2i) ==
    IF pre_tokens = <<>> THEN <<>>
    ELSE RefIds(Head(pre_tokens), rules, b2i) \o RefIdsAll(Tail(pre_tokens), rules, b2i)

\* both parts and the concatenation of every rule have an id
RulesHaveIds(rules, b2i) ==
    \A k \in 1..Len(rules) :
        /\ rules[k][1] \in DOMAIN b2i
        /\ rules[k][2] \in DOMAIN b2i
        /\ (rules[k][1] \o rules[k][2]) \in DOMAIN b2i

\* C3: merge replay order.  With no special token configured encode(text) is
\* _encode_text(text); when every byte and every rule has its ids, the ids of
\* every pre-token are those of the reference replay: the single bytes, then
\* each rule of the merge list once, in list order, replacing the
\* non-overlapping adjacent occurrences of its pair from left to right.
MergeReplayOrder ==
    (/\ pc \in {"encoded", "decoded"}
     /\ special_tokens = <<>>
     /\ BaseBytesPresent(byte_to_id)
     /\ RulesHaveIds(merges, byte_to_id))
        => ids = RefIdsAll(PreTokenize(text), merges, byte_to_id)

\* "aba" has been encoded under the two rules (b, a), (a, b), which give
\* another result in the other order, and "aaa" under (a, a), whose occurrences
\* overlap
MergeReplayWitness ==
    /\ pc = "encoded"
    /\ special_tokens = <<>>
    /\ \/ /\ text = <<97, 98, 97>>
          /\ merges = << <<(<<98>>), (<<97>>)>>, <<(<<97>>), (<<98>>)>> >>
          /\ ids = <<97, byte_to_id[<<98, 97>>]>>
       \/ /\ text = <<32, 97, 97>>
          /\ <<(<<97>>), (<<97>>)>> \in Range(merges)
          /\ Len(ids) = 2

\* some rule's left part, right part or concatenation is no entry of v
Malformed(v, rules) ==
    \E k \in 1..Len(rules) :
        \/ rules[k][1] \notin Range(v)
        \/ rules[k][2] \notin Range(v)
        \/ (rules[k][1] \o rules[k][2]) \notin Range(v)

\* C9: malformed artifact.  Constructing a Tokenizer from a vocabulary and a
\* merge list in which a rule's left part, right part or concatenation is
\* missing from the vocabulary is refused: no Tokenizer is produced.
MalformedArtifactRefused ==
    Malformed(in_vocab, in_merges) => pc \in {"new", "config_error"}

\* the spans encode works on: special-token literals, and the pre-tokens of the
\* plain spans between them
RECURSIVE SpansOfParts(_, _, _)
SpansOfParts(parts, n, specials) ==
    IF n > Len(parts) THEN <<>>
    ELSE (IF parts[n] = <<>> THEN <<>>
          ELSE IF parts[n] \in Range(specials) THEN <<parts[n]>>
          ELSE PreTokenize(parts[n]))
         \o SpansOfParts(parts, n + 1, specials)

Spans(t, specials) ==
    IF specials = <<>> THEN PreTokenize(t)
    ELSE SpansOfParts(SplitKeep(t, specials), 1, specials)

\* the offsets at which a sequence of strings ends its members
EndOffsets(strs) == {Len(Concat(SubSeq(strs, 1, k))) : k \in 0..Len(strs)}

\* C10: streaming equals whole-text encoding.  When every flush boundary of
\* encode_iterable falls on a pre-token boundary of the concatenated text, the
\* ids yielded are exactly encode(concatenation of the chunks).
StreamEqualsWhole ==
    (/\ pc = "stream_done"
     /\ EndOffsets(flushed) \subseteq EndOffsets(Spans(Concat(iterable), special_tokens)))
        => yielded = EncodeWith(Concat(iterable), special_tokens, merges, byte_to_id)

(***************************************************************************)
(* Properties of train_bpe, checked under TrainSpec.                       *)
(***************************************************************************)
\* C4: determinism of training.  A second call of train_bpe on the same corpus,
\* target size and special tokens returns the vocabulary and the merge list the
\* first call returned, whichever maximal item max meets first.
TrainingDeterministic ==
    (tr_pc = "done" /\ run = 2) => <<tr_vocab, tr_merges>> = first_result

\* the second call has returned after two merges, the first of them chosen
\* among several pairs of the same count ("abba": (a,b), (b,b), (b,a))
TrainingDeterministicWitness ==
    /\ tr_pc = "done" /\ run = 2
    /\ input_text = <<97, 98, 98, 97>>
    /\ Len(tr_merges) = 2
    /\ tr_merges[1] = <<(<<98>>), (<<98>>)>>

\* C5 as claimed: the returned vocabulary has at most target_vocab_size entries,
\* for every target_vocab_size.
VocabWithinTarget ==
    tr_pc = "done" => Cardinality(DOMAIN tr_vocab) <= vocab_size

\* C5 as amended: the returned vocabulary has at most
\* max(target_vocab_size, 256 + len(special_tokens)) entries.
VocabWithinTargetOrInitial ==
    tr_pc = "done" =>
        Cardinality(DOMAIN tr_vocab)
            <= (IF vocab_size > BaseSize + Len(tr_special)
                THEN vocab_size ELSE BaseSize + Len(tr_special))

\* training has stopped at the target size with pairs left to merge
VocabWithinTargetWitness ==
    /\ tr_pc = "done"
    /\ Len(tr_merges) > 0
    /\ Cardinality(DOMAIN tr_vocab) = vocab_size
    /\ DOMAIN PairCounts(token_counter) # {}

\* C6: vocabulary growth.  At the start of every turn of the loop and at return
\* len(vocab) = 256 + len(special_tokens) + len(merges); a turn that records a
\* rule adds exactly one entry, and no entry is removed or overwritten.
VocabGrowth ==
    /\ [](tr_pc \in {"loop", "done"} =>
            Cardinality(DOMAIN tr_vocab)
                = BaseSize + Len(tr_special) + Len(tr_merges))
    /\ [][tr_pc = "loop" =>
            /\ \A k \in DOMAIN tr_vocab :
                   k \in DOMAIN tr_vocab' /\ tr_vocab'[k] = tr_vocab[k]
            /\ Len(tr_merges') = Len(tr_merges) + 1 =>
                   Cardinality(DOMAIN tr_vocab') = Cardinality(DOMAIN tr_vocab) + 1]_vars

\* training with a special token has returned after three merges
VocabGrowthWitness ==
    /\ tr_pc = "done"
    /\ tr_special # <<>>
    /\ Len(tr_merges) = 3

\* the adjacent id pairs of a table
AdjacentPairs(counter) ==
    UNION {{<<tk[i], tk[i + 1]>> : i \in 1..(Len(tk) - 1)} : tk \in DOMAIN counter}

\* the sum of f over the finite set S
RECURSIVE SumOver(_, _)
SumOver(S, f) ==
    IF S = {} THEN 0
    ELSE LET x == CHOOSE y \in S : TRUE IN f[x] + SumOver(S \ {x}, f)

\* the weighted count of a pair: every position at which it occurs in an entry
\* adds the entry's frequency
WeightedCount(counter, p) ==
    SumOver(DOMAIN counter,
            [tk \in DOMAIN counter |->
                counter[tk] * Cardinality({i \in 1..(Len(tk) - 1) :
                                               tk[i] = p[1] /\ tk[i + 1] = p[2]})])

\* byte-lexicographic order: x is a prefix of y, or x is smaller where they
\* first differ
LexLeq(x, y) ==
    \/ (Len(x) <= Len(y) /\ SubSeq(y, 1, Len(x)) = x)
    \/ \E k \in 1..Len(x) :
           /\ k <= Len(y)
           /\ SubSeq(x, 1, k - 1) = SubSeq(y, 1, k - 1)
           /\ x[k] < y[k]

\* (l1, r1) <= (l2, r2) as pairs of byte sequences
PairLexLeq(l1, r1, l2, r2) ==
    IF l1 = l2 THEN LexLeq(r1, r2) ELSE LexLeq(l1, l2)

\* C7: best-pair selection.  The rule a turn of the loop records is the pair of
\* maximal weighted count over the table of that turn; among the pairs of that
\* count it is the one whose (left_bytes, right_bytes) is greatest in
\* byte-lexicographic order.
BestPairSelected ==
    [][Len(tr_merges') = Len(tr_merges) + 1 =>
          \E p \in AdjacentPairs(token_counter) :
              /\ tr_merges'[Len(tr_merges')] = <<tr_vocab[p[1]], tr_vocab[p[2]]>>
              /\ \A q \in AdjacentPairs(token_counter) :
                     \/ WeightedCount(token_counter, q) < WeightedCount(token_counter, p)
                     \/ /\ WeightedCount(token_counter, q) = WeightedCount(token_counter, p)
                        /\ PairLexLeq(tr_vocab[q[1]], tr_vocab[q[2]],
                                      tr_vocab[p[1]], tr_vocab[p[2]])]_vars

\* a rule has been chosen by its count against a pair of greater bytes:
\* "abab" has (a, b) twice and (b, a) once
BestPairWitness ==
    /\ tr_pc = "done"
    /\ input_text = <<97, 98, 97, 98>>
    /\ Len(tr_merges) >= 1
    /\ tr_merges[1] = <<(<<97>>), (<<98>>)>>

\* C8: in the vocabulary train_bpe returns no two ids carry the same byte
\* sequence, also with a special token whose bytes are those of an entry that
\* exists already.
VocabInjective ==
    tr_pc = "done" =>
        \A i, j \in DOMAIN tr_vocab : tr_vocab[i] = tr_vocab[j] => i = j

(***************************************************************************)
(* Further properties of the Tokenizer, checked under Spec.                *)
(***************************************************************************)
\* iterating a file handle opened in text mode: the lines of t, each one ending
\* with its newline except possibly the last
RECURSIVE LinesOf(_)
LinesOf(t) ==
    IF t = <<>> THEN <<>>
    ELSE IF 10 \notin Range(t) THEN <<t>>
    ELSE LET k == CHOOSE j \in 1..Len(t) : t[j] = 10 /\ \A h \in 1..(j - 1) : t[h] # 10
         IN  <<SubSeq(t, 1, k)>> \o LinesOf(SubSeq(t, k + 1, Len(t)))

\* C11: line-by-line streaming.  When the chunks are the lines of a text as a
\* file handle yields them, the ids encode_iterable yields are the ids of
\* encoding the whole text in one call.
LineStreamEqualsWhole ==
    (pc = "stream_done" /\ iterable = LinesOf(Concat(iterable)))
        => yielded = EncodeWith(Concat(iterable), special_tokens, merges, byte_to_id)

(***************************************************************************)
(* The training driver (train_bpe_owt.main) and Tokenizer.from_files.      *)
(* A path is <<stem, extension>>; a file's content is the object that      *)
(* json.load or pickle.load gives back from it: json.dump followed by      *)
(* json.load returns an equal object of dicts, lists and strings, and      *)
(* pickle.dump followed by pickle.load an equal object.  A JSON string s   *)
(* is [type |-> "str", value |-> s].                                       *)
(***************************************************************************)
JsonStr(s) == [type |-> "str", value |-> s]

\* isinstance(v, str)
IsStr(j) == j.type = "str"

\* str(k) of an int k >= 0
RECURSIVE IntToStr(_)
IntToStr(n) ==
    IF n < 10 THEN <<48 + n>> ELSE IntToStr(n \div 10) \o <<48 + (n % 10)>>

\* int(s) of a string of decimal digits
RECURSIVE StrToInt(_)
StrToInt(s) ==
    IF s = <<>> THEN 0
    ELSE 10 * StrToInt(SubSeq(s, 1, Len(s) - 1)) + (s[Len(s)] - 48)

\* {str(k): v.decode('utf-8', errors='replace') for k, v in vocab.items()}
VocabForJson(v) ==
    [k \in {IntToStr(i) : i \in DOMAIN v} |-> JsonStr(Utf8Decode(v[StrToInt(k)]))]

\* [[m[0].decode('utf-8', errors='replace'), m[1].decode(...)] for m in merges]
MergesForJson(ms) ==
    [n \in 1..Len(ms) |->
        <<JsonStr(Utf8Decode(ms[n][1])), JsonStr(Utf8Decode(ms[n][2]))>>]

\* the loop over vocab_raw.items(): vocab[int(k)] is set from the value under
\* k, which is str(int(k)) for the keys a dump of int keys writes
LoadVocabJson(vocab_raw) ==
    [i \in {StrToInt(k) : k \in DOMAIN vocab_raw} |->
        LET k == IF IntToStr(i) \in DOMAIN vocab_raw THEN IntToStr(i)
                 ELSE CHOOSE key \in DOMAIN vocab_raw : StrToInt(key) = i
            v == vocab_raw[k]
        IN  IF IsStr(v) THEN Utf8(v.value) ELSE v.value]

\* the loop over merges_raw, from merges_raw[n] on
RECURSIVE LoadMergesJsonFrom(_, _)
LoadMergesJsonFrom(merges_raw, n) ==
    IF n > Len(merges_raw) THEN <<>>
    ELSE LET merge == merges_raw[n]
         IN  (IF Len(merge) = 2
              THEN IF IsStr(merge[1])
                   THEN << <<Utf8(merge[1].value), Utf8(merge[2].value)>> >>
                   ELSE << <<merge[1].value, merge[2].value>> >>
              ELSE <<>>)
             \o LoadMergesJsonFrom(merges_raw, n + 1)

LoadMergesJson(merges_raw) == LoadMergesJsonFrom(merges_raw, 1)

\* the driver's special_tokens, the literal "<X>" standing for "<|endoftext|>"
DriverSpecials == << MarkX >>

\* the driver's vocab_size, scaled to MaxGrow merges
DriverVocabSize == BaseSize + Len(DriverSpecials) + MaxGrow

\* the paths given to from_files
VocabPaths == { <<"vocab", ".json">>, <<"vocab", ".pkl">>, <<"vocab", ".txt">> }

MergesPaths == { <<"merges", ".json">>, <<"merges", ".pkl">>, <<"merges", ".txt">> }

\* main() is entered with the input file present
DriverInit ==
    /\ tr_pc = "start" /\ run = 1
    /\ input_text \in Corpora
    /\ tr_special = DriverSpecials
    /\ vocab_size = DriverVocabSize
    /\ token_counter = <<>> /\ tr_vocab = <<>> /\ next_token_id = 0
    /\ tr_merges = <<>> /\ first_result = <<>>

\* main() after train_bpe has returned: the four files (lines 40-64)
SaveFiles ==
    /\ tr_pc = "done" /\ run = 1
    /\ files = <<>>
    /\ files' = ( <<"vocab", ".json">> :> VocabForJson(tr_vocab)
               @@ <<"vocab", ".pkl">> :> tr_vocab
               @@ <<"merges", ".json">> :> MergesForJson(tr_merges)
               @@ <<"merges", ".pkl">> :> tr_merges )
    /\ tr_pc' = "saved"
    /\ UNCHANGED <<trainArgs, run, first_result, token_counter, tr_vocab,
                   next_token_id, tr_merges, tokVars, vocab_filepath, merges_filepath, callVars>>

\* Tokenizer.from_files(vocab_filepath, merges_filepath, special_tokens), the
\* constructor call of line 96 included; an unsupported extension raises
\* ValueError
FromFiles ==
    /\ pc = "idle" /\ tr_pc = "saved"
    /\ \E vp \in VocabPaths, mp \in MergesPaths, sp \in {<<>>, DriverSpecials} :
         /\ vocab_filepath' = vp
         /\ merges_filepath' = mp
         /\ IF vp[2] \notin {".json", ".pkl"} \/ mp[2] \notin {".json", ".pkl"}
            THEN /\ pc' = "value_error"
                 /\ UNCHANGED <<argVars, selfVars>>
            ELSE LET v == IF vp[2] = ".json" THEN LoadVocabJson(files[vp]) ELSE files[vp]
                     ms == IF mp[2] = ".json" THEN LoadMergesJson(files[mp]) ELSE files[mp]
                     b2i0 == ReverseVocab(v)
                     first_free_id == IF DOMAIN v # {} THEN SetMax(DOMAIN v) + 1 ELSE 0
                     reg == RegisterSpecials(v, b2i0, first_free_id, sp, 1)
                 IN  /\ in_vocab' = v /\ in_merges' = ms /\ in_special' = sp
                     /\ vocab' = reg.vocab
                     /\ byte_to_id' = reg.byte_to_id
                     /\ merge_dict' = BuildMergeDict(ms, reg.byte_to_id)
                     /\ merges' = ms
                     /\ special_tokens' = sp
                     /\ pc' = "ready"
    /\ UNCHANGED <<encodeVars, streamVars, trainVars, files, callVars>>

DriverNext ==
    \/ TrainSetup
    \/ TrainIter
    \/ TrainExit
    \/ TrainBreak
    \/ SaveFiles
    \/ FromFiles

DriverSpecInit == DriverInit /\ TokIdle /\ DriverIdle /\ CallIdle

\* the driver trains and saves, and a Tokenizer is loaded from what it saved
DriverSpec == DriverSpecInit /\ [][DriverNext]_vars

(***************************************************************************)
(* Properties of the persisted artifacts, checked under DriverSpec.        *)
(***************************************************************************)
\* C12: persisted vocabulary round trip.  The vocabulary and the merge list the
\* driver wrote as JSON, loaded back by Tokenizer.from_files, are the id ->
\* bytes mapping and the merge pairs train_bpe returned, whatever the bytes.
PersistedRoundTrip ==
    (/\ pc = "ready" /\ tr_pc = "saved"
     /\ vocab_filepath[2] = ".json" /\ merges_filepath[2] = ".json")
        => in_vocab = tr_vocab /\ in_merges = tr_merges

(***************************************************************************)
(* Further properties of train_bpe, checked under TrainSpec.               *)
(***************************************************************************)
\* C13: parallel counting is not observable.  The pre-token frequency table with
\* which the merge loop starts is the table of the serial path, whichever path
\* built it.
ParallelEqualsSerial ==
    (tr_pc = "loop" /\ tr_merges = <<>>)
        => token_counter = CountSerial(<<>>, SplitDrop(input_text, tr_special), 1)

\* C14: target too small.  With target_vocab_size below 256 + len(special_tokens)
\* train_bpe raises no error, records no merge, and returns the 256 base bytes
\* followed by the special tokens, with an empty merge list.
TargetTooSmall ==
    vocab_size < BaseSize + Len(tr_special) =>
        /\ tr_pc # "value_error"
        /\ tr_pc \in {"loop", "done"} => tr_merges = <<>>
        /\ tr_pc = "done" =>
               tr_vocab = [i \in 0..(BaseSize + Len(tr_special) - 1) |->
                              IF i < BaseSize THEN <<i>>
                              ELSE Utf8(tr_special[i - BaseSize + 1])]

\* the step out of "start": TrainSetup is enabled in every state at "start" and
\* is the only action that leaves it
SetupReturns == tr_pc = "start" /\ tr_pc' \in {"loop", "value_error"}

\* train_bpe runs on one thread of its caller: a step that can be taken is taken
TrainLiveSpec ==
    /\ TrainSpecInit
    /\ [][TrainNext]_vars
    /\ WF_tr_pc(SetupReturns)
    /\ WF_vars(TrainIter) /\ WF_vars(TrainExit) /\ WF_vars(TrainBreak)
    /\ WF_vars(TrainAgain)

\* C15: training terminates.  For every corpus and every target_vocab_size the
\* call of train_bpe returns: the loop stops at the target size or when no
\* adjacent pair is left, and no error is raised.
TrainingTerminates == <>(tr_pc = "done")

\* C16: merge rules and vocabulary agree.  With S special tokens, the k-th rule
\* (l, r), counted from 0, has vocab[256 + S + k] = l + r, and l and r are each
\* the bytes of an entry with a smaller id.
RulesMatchVocab ==
    tr_pc \in {"loop", "done"} =>
        \A k \in 1..Len(tr_merges) :
            LET id == BaseSize + Len(tr_special) + k - 1
                l == tr_merges[k][1]
                r == tr_merges[k][2]
            IN  /\ id \in DOMAIN tr_vocab
                /\ tr_vocab[id] = l \o r
                /\ \E i \in DOMAIN tr_vocab : i < id /\ tr_vocab[i] = l
                /\ \E j \in DOMAIN tr_vocab : j < id /\ tr_vocab[j] = r

\* training has returned with a rule whose left part is itself a merged token
RulesMatchVocabWitness ==
    /\ tr_pc = "done"
    /\ Len(tr_merges) >= 2
    /\ \E k \in 1..Len(tr_merges) : Len(tr_merges[k][1]) > 1

\* C17: trained vocabulary layout.  From the start of the merge loop to the
\* return, id i in 0..255 maps to the single byte i and id 256 + j to the UTF-8
\* bytes of the j-th special token, in input order.
TrainedLayout ==
    tr_pc \in {"loop", "done"} =>
        /\ \A i \in 0..(BaseSize - 1) : i \in DOMAIN tr_vocab /\ tr_vocab[i] = <<i>>
        /\ \A j \in 1..Len(tr_special) :
               /\ (BaseSize + j - 1) \in DOMAIN tr_vocab
               /\ tr_vocab[BaseSize + j - 1] = Utf8(tr_special[j])

\* training with two special tokens has returned after a merge
TrainedLayoutWitness ==
    /\ tr_pc = "done"
    /\ Len(tr_special) = 2
    /\ Len(tr_merges) >= 1

\* x occurs in y as a contiguous run
IsSubstring(x, y) ==
    \E i \in 1..(Len(y) - Len(x) + 1) : SubSeq(y, i, i + Len(x) - 1) = x

\* C18: special tokens never take part in merge learning.  Every entry of the
\* frequency table is a contiguous piece of the corpus that holds no
\* special-token literal, so no pre-token spans a special token; no id in an
\* entry is the id of a special token; and no recorded rule holds a literal.
SpecialsStayOut ==
    tr_pc \in {"loop", "done"} =>
        /\ \A tk \in DOMAIN token_counter :
               LET b == TokenBytes(tk, tr_vocab)
               IN  /\ IsSubstring(b, Utf8(input_text))
                   /\ \A j \in 1..Len(tr_special) : ~IsSubstring(Utf8(tr_special[j]), b)
                   /\ \A n \in 1..Len(tk) :
                          tk[n] \notin BaseSize..(BaseSize + Len(tr_special) - 1)
        /\ \A k \in 1..Len(tr_merges) :
               \A j \in 1..Len(tr_special) :
                   ~IsSubstring(Utf8(tr_special[j]), tr_merges[k][1] \o tr_merges[k][2])

\* a corpus with a special token between two pieces of text has been trained
\* on, and a rule has been recorded
SpecialsStayOutWitness ==
    /\ tr_pc = "done"
    /\ tr_special # <<>>
    /\ IsSubstring(MarkX, input_text)
    /\ input_text[1] # 60 /\ input_text[Len(input_text)] # 62
    /\ Len(tr_merges) >= 1

(***************************************************************************)
(* Further properties of the Tokenizer, checked under Spec.                *)
(***************************************************************************)
\* C19: special tokens are registered without duplication.  When the constructor
\* has returned,
\* every special token's bytes have an id in byte_to_id; bytes that were an entry
\* keep an id of the given vocabulary and add no entry; bytes that were absent
\* get an id above every given id; no given entry is changed; and
\* vocab[byte_to_id[b]] = b for every indexed b.
SpecialsRegistered ==
    pc = "ready" =>
        /\ \A j \in 1..Len(special_tokens) :
               LET b == Utf8(special_tokens[j])
               IN  /\ b \in DOMAIN byte_to_id
                   /\ IF b \in Range(in_vocab)
                      THEN byte_to_id[b] \in DOMAIN in_vocab /\ in_vocab[byte_to_id[b]] = b
                      ELSE \A k \in DOMAIN in_vocab : byte_to_id[b] > k
        /\ \A k \in DOMAIN in_vocab : k \in DOMAIN vocab /\ vocab[k] = in_vocab[k]
        /\ Cardinality(DOMAIN vocab)
               = Cardinality(DOMAIN in_vocab)
                 + Cardinality({Utf8(special_tokens[j]) : j \in 1..Len(special_tokens)}
                                   \ Range(in_vocab))
        /\ \A b \in DOMAIN byte_to_id :
               byte_to_id[b] \in DOMAIN vocab /\ vocab[byte_to_id[b]] = b

\* a Tokenizer has been built from a vocabulary in which two ids carry "a", with
\* the special tokens "<X>", which had no entry, and "a"
SpecialsRegisteredWitness ==
    /\ pc = "ready"
    /\ special_tokens = << MarkX, <<97>> >>
    /\ Cardinality({k \in DOMAIN in_vocab : in_vocab[k] = <<97>>}) = 2
    /\ Cardinality(DOMAIN vocab) = Cardinality(DOMAIN in_vocab) + 1
    /\ byte_to_id[Utf8(MarkX)] = SetMax(DOMAIN in_vocab) + 1

\* the ids of a list that are keys of v, in order
KnownIds(token_ids, v) == SelectSeq(token_ids, LAMBDA id : id \in DOMAIN v)

\* C20: lossy decode never fails.  For any list of integers decode returns the
\* UTF-8 decoding, with U+FFFD for malformed sequences, of the concatenated bytes
\* of exactly the ids that are in the vocabulary, in order; an id that is absent
\* adds nothing.
LossyDecode ==
    pc = "decoded_ids" =>
        LET known == KnownIds(ids, vocab)
        IN  decoded = Utf8Decode(Concat([n \in 1..Len(known) |-> vocab[known[n]]]))

\* a list with an id that is in no vocabulary between the two bytes of e-acute
\* has been decoded to e-acute
LossyDecodeWitness ==
    /\ pc = "decoded_ids"
    /\ ids = <<195, -1, 169>>
    /\ decoded = <<233>>

(***************************************************************************)
(* Further properties of the Tokenizer, checked under Spec.                *)
(***************************************************************************)
\* C21: streaming decode equivalence.  For a tokenizer whose vocabulary holds
\* the 256 single-byte entries and every sequence of chunks,
\* decode(list(encode_iterable(chunks))) is decode(encode(concatenation of the
\* chunks)) and is the concatenation itself.
StreamDecodeEquivalence ==
    (pc = "stream_decoded" /\ BaseBytesPresent(byte_to_id))
        => /\ decoded = DecodeWith(EncodeWith(Concat(iterable), special_tokens,
                                              merges, byte_to_id), vocab)
           /\ decoded = Concat(iterable)

\* "a\n\n", then "e-acute<X>" with "<X>" a special token: the forced flush cuts
\* the literal, the ids yielded are not those of the whole text, and the decoded
\* text is the concatenation
StreamDecodeWitness ==
    /\ pc = "stream_decoded"
    /\ BaseBytesPresent(byte_to_id)
    /\ iterable = << <<97, 10, 10>>, <<233, 60, 88, 62>> >>
    /\ MarkX \in Range(special_tokens)
    /\ Len(flushed) = 3
    /\ ids # EncodeWith(Concat(iterable), special_tokens, merges, byte_to_id)
    /\ decoded = <<97, 10, 10, 233, 60, 88, 62>>

(***************************************************************************)
(* Concurrent calls on one Tokenizer.  Each caller makes one call of       *)
(* encode, decode or encode_iterable; the calls run in any interleaving of *)
(* their steps.  A call reads self and writes its own local variables.     *)
(***************************************************************************)
Callers == {1, 2}

\* the arguments of the concurrent calls
SharedTexts == { <<>>, <<97, 98, 97>>, <<97, 60, 88, 62, 98>> }

SharedIdLists == { <<>>, <<97, -1, 256>>, <<195, 169>> }

SharedIterables == { << <<97, 10>>, <<98>> >>, << <<233, 60, 88, 62>> >> }

\* the locals of a call before its loop: n is the position of the loop in what
\* it iterates over
NoFrame ==
    [parts |-> <<>>, n |-> 1, token_ids |-> <<>>, all_bytes |-> <<>>, buffer |-> <<>>]

\* every call writes the one frame 1
FrameShared(c) == 1

\* the frame of caller c's call: locals belong to the call
Frame(c) == c

\* the tokenizer's client holds the arguments; two callers wait for the object
SharedInit ==
    /\ TokInit /\ TrainIdle /\ DriverIdle
    /\ call_pc = [c \in Callers |-> "idle"]
    /\ call_op = [c \in Callers |-> "none"]
    /\ call_arg = [c \in Callers |-> <<>>]
    /\ frames = [f \in Callers |-> NoFrame]
    /\ call_result = [c \in Callers |-> <<>>]
    /\ call_overlap = [c \in Callers |-> FALSE]

\* caller c takes a step: every other call that is running has been overlapped
Overlap(c) ==
    call_overlap' = [d \in Callers |->
                        IF d = c THEN call_pc[c] # "idle" /\ call_overlap[c]
                        ELSE call_overlap[d] \/ call_pc[d] \notin {"idle", "returned"}]

Return(c, value) ==
    /\ call_pc' = [call_pc EXCEPT ![c] = "returned"]
    /\ call_result' = [call_result EXCEPT ![c] = value]

\* encode(text) up to the for loop (lines 108-118, 133-134)
CallEncode(c) ==
    /\ pc = "ready" /\ call_pc[c] = "idle"
    /\ \E t \in SharedTexts :
         /\ call_op' = [call_op EXCEPT ![c] = "encode"]
         /\ call_arg' = [call_arg EXCEPT ![c] = t]
         /\ IF t = <<>>
            THEN Return(c, <<>>) /\ UNCHANGED frames
            ELSE IF special_tokens # <<>>
                 THEN /\ frames' = [frames EXCEPT ![Frame(c)] =
                                       [NoFrame EXCEPT !.parts = SplitKeep(t, special_tokens)]]
                      /\ call_pc' = [call_pc EXCEPT ![c] = "encode_for"]
                      /\ UNCHANGED call_result
                 ELSE Return(c, EncodeText(t, merges, byte_to_id)) /\ UNCHANGED frames
    /\ Overlap(c)
    /\ UNCHANGED <<tokVars, trainVars, driverVars>>

\* one turn of the for loop over the parts, or the return (lines 119-132)
CallEncodePart(c) ==
    /\ call_pc[c] = "encode_for"
    /\ LET fr == frames[Frame(c)]
       IN  IF fr.n <= Len(fr.parts)
           THEN /\ frames' = [frames EXCEPT ![Frame(c)] =
                                 [fr EXCEPT !.token_ids = @ \o EncodeParts(<<fr.parts[fr.n]>>, 1,
                                                special_tokens, merges, byte_to_id),
                                            !.n = @ + 1]]
                /\ UNCHANGED <<call_pc, call_result>>
           ELSE Return(c, fr.token_ids) /\ UNCHANGED frames
    /\ Overlap(c)
    /\ UNCHANGED <<call_op, call_arg, tokVars, trainVars, driverVars>>

\* decode(ids) up to the for loop (lines 238-242)
CallDecode(c) ==
    /\ pc = "ready" /\ call_pc[c] = "idle"
    /\ \E token_ids \in SharedIdLists :
         /\ call_op' = [call_op EXCEPT ![c] = "decode"]
         /\ call_arg' = [call_arg EXCEPT ![c] = token_ids]
         /\ IF token_ids = <<>>
            THEN Return(c, <<>>) /\ UNCHANGED frames
            ELSE /\ frames' = [frames EXCEPT ![Frame(c)] = NoFrame]
                 /\ call_pc' = [call_pc EXCEPT ![c] = "decode_for"]
                 /\ UNCHANGED call_result
    /\ Overlap(c)
    /\ UNCHANGED <<tokVars, trainVars, driverVars>>

\* one turn of the for loop over the ids, or the return (lines 243-253)
CallDecodeId(c) ==
    /\ call_pc[c] = "decode_for"
    /\ LET fr == frames[Frame(c)]
       IN  IF fr.n <= Len(call_arg[c])
           THEN /\ frames' = [frames EXCEPT ![Frame(c)] =
                                 [fr EXCEPT !.all_bytes = @ \o TokenBytes(<<call_arg[c][fr.n]>>, vocab),
                                            !.n = @ + 1]]
                /\ UNCHANGED <<call_pc, call_result>>
           ELSE Return(c, Utf8Decode(fr.all_bytes)) /\ UNCHANGED frames
    /\ Overlap(c)
    /\ UNCHANGED <<call_op, call_arg, tokVars, trainVars, driverVars>>

\* list(encode_iterable(iterable)): the generator starts (line 201); token_ids
\* collects what is yielded
CallEncodeIterable(c) ==
    /\ pc = "ready" /\ call_pc[c] = "idle"
    /\ \E it \in SharedIterables :
         /\ call_op' = [call_op EXCEPT ![c] = "encode_iterable"]
         /\ call_arg' = [call_arg EXCEPT ![c] = it]
    /\ frames' = [frames EXCEPT ![Frame(c)] = NoFrame]
    /\ call_pc' = [call_pc EXCEPT ![c] = "stream_for"]
    /\ Overlap(c)
    /\ UNCHANGED <<call_result, tokVars, trainVars, driverVars>>

\* the for loop takes a chunk (lines 203-204), or the iterable is exhausted
\* (lines 224-226)
CallPull(c) ==
    /\ call_pc[c] = "stream_for"
    /\ LET fr == frames[Frame(c)]
       IN  IF fr.n <= Len(call_arg[c])
           THEN LET buf == fr.buffer \o call_arg[c][fr.n]
                IN  /\ frames' = [frames EXCEPT ![Frame(c)] =
                                     [fr EXCEPT !.buffer = buf, !.n = @ + 1]]
                    /\ call_pc' = [call_pc EXCEPT ![c] =
                                      IF MustFlush(buf) THEN "stream_while" ELSE "stream_for"]
                    /\ UNCHANGED call_result
           ELSE /\ Return(c, IF fr.buffer # <<>>
                             THEN fr.token_ids \o EncodeWith(fr.buffer, special_tokens,
                                                             merges, byte_to_id)
                             ELSE fr.token_ids)
                /\ UNCHANGED frames
    /\ Overlap(c)
    /\ UNCHANGED <<call_op, call_arg, tokVars, trainVars, driverVars>>

\* one turn of the while loop (lines 208-221)
CallFlush(c) ==
    /\ call_pc[c] = "stream_while"
    /\ LET fr == frames[Frame(c)]
           cut == IF 10 \in Range(fr.buffer) THEN LastNewline(fr.buffer) + 1 ELSE FlushSize
           to_process == Slice(fr.buffer, 0, cut)
           rest == Slice(fr.buffer, cut, Len(fr.buffer))
       IN  /\ frames' = [frames EXCEPT ![Frame(c)] =
                            [fr EXCEPT !.buffer = rest,
                                       !.token_ids = IF to_process # <<>>
                                                     THEN @ \o EncodeWith(to_process, special_tokens,
                                                                          merges, byte_to_id)
                                                     ELSE @]]
           /\ call_pc' = [call_pc EXCEPT ![c] =
                             IF MustFlush(rest) THEN "stream_while" ELSE "stream_for"]
    /\ Overlap(c)
    /\ UNCHANGED <<call_op, call_arg, call_result, tokVars, trainVars, driverVars>>

SharedNext ==
    \/ Construct
    \/ \E c \in Callers :
         \/ CallEncode(c)
         \/ CallEncodePart(c)
         \/ CallDecode(c)
         \/ CallDecodeId(c)
         \/ CallEncodeIterable(c)
         \/ CallPull(c)
         \/ CallFlush(c)

\* one Tokenizer, two callers, any interleaving of the steps of their calls
SharedSpec == SharedInit /\ [][SharedNext]_vars

\* the while loop of encode_iterable run to its end on one buffer
RECURSIVE DrainBuffer(_, _, _, _, _)
DrainBuffer(buf, out, specials, ms, b2i) ==
    IF ~MustFlush(buf) THEN [buffer |-> buf, out |-> out]
    ELSE LET cut == IF 10 \in Range(buf) THEN LastNewline(buf) + 1 ELSE FlushSize
             to_process == Slice(buf, 0, cut)
         IN  DrainBuffer(Slice(buf, cut, Len(buf)),
                         IF to_process # <<>>
                         THEN out \o EncodeWith(to_process, specials, ms, b2i) ELSE out,
                         specials, ms, b2i)

\* list(encode_iterable(it)) run alone, from chunk n on
RECURSIVE EncodeIterableFrom(_, _, _, _, _, _, _)
EncodeIterableFrom(it, n, buf, out, specials, ms, b2i) ==
    IF n > Len(it)
    THEN (IF buf # <<>> THEN out \o EncodeWith(buf, specials, ms, b2i) ELSE out)
    ELSE LET d == DrainBuffer(buf \o it[n], out, specials, ms, b2i)
         IN  EncodeIterableFrom(it, n + 1, d.buffer, d.out, specials, ms, b2i)

\* what caller c's call returns when it runs alone on the tokenizer
AloneResult(c) ==
    CASE call_op[c] = "encode" ->
             EncodeWith(call_arg[c], special_tokens, merges, byte_to_id)
      [] call_op[c] = "decode" -> DecodeWith(call_arg[c], vocab)
      [] call_op[c] = "encode_iterable" ->
             EncodeIterableFrom(call_arg[c], 1, <<>>, <<>>, special_tokens, merges, byte_to_id)

\* C22: shared read-only model.  No step of encode, decode or encode_iterable
\* changes vocab, merges, byte_to_id or special_tokens of the tokenizer, and in
\* every interleaving of two concurrent calls each call returns what it returns
\* when run alone.
SharedReadOnly ==
    /\ [](\A c \in Callers : call_pc[c] = "returned" => call_result[c] = AloneResult(c))
    /\ [][pc = "ready" => UNCHANGED <<vocab, merges, byte_to_id, special_tokens>>]_vars

\* caller 1 has returned the three ids of "a<X>b" from its for loop over the
\* parts, caller 2 having taken steps meanwhile, and caller 2 is in the for loop
\* of decode, two ids done
SharedReadOnlyWitness ==
    /\ pc = "ready"
    /\ call_pc[1] = "returned" /\ call_op[1] = "encode"
    /\ call_arg[1] = <<97, 60, 88, 62, 98>>
    /\ MarkX \in Range(special_tokens)
    /\ Len(call_result[1]) = 3
    /\ call_overlap[1]
    /\ call_pc[2] = "decode_for" /\ frames[2].n = 3
    /\ frames[2].all_bytes = <<195, 169>>

\* C23: empty input.  For every tokenizer, with or without special tokens,
\* encode("") returns the empty id list and decode([]) returns the empty string.
EmptyInput ==
    /\ (pc \in {"encoded", "decoded"} /\ text = <<>>) => ids = <<>>
    /\ (pc \in {"decoded", "decoded_ids", "stream_decoded"} /\ ids = <<>>) => decoded = <<>>

\* a tokenizer with special tokens has encoded "" and decoded the result
EmptyInputWitness ==
    /\ pc = "decoded"
    /\ special_tokens # <<>>
    /\ text = <<>> /\ ids = <<>> /\ decoded = <<>>

(***************************************************************************)
(* A Tokenizer built from what train_bpe returned.                         *)
(***************************************************************************)
\* the caller of train_bpe passes the vocabulary and the merge list it got to
\* Tokenizer(vocab, merges, special_tokens), with the special tokens of the
\* training or with none
PassTrained ==
    /\ tr_pc = "done" /\ run = 1
    /\ pc = "idle"
    /\ in_vocab' = tr_vocab
    /\ in_merges' = tr_merges
    /\ in_special' \in {<<>>, tr_special}
    /\ pc' = "new"
    /\ UNCHANGED <<selfVars, encodeVars, streamVars, trainVars, driverVars, callVars>>

\* encode(pre_token) for a pre-token of the corpus: the text whose UTF-8 bytes
\* are the bytes of an entry of the frequency table
EncodeCorpusPreToken ==
    /\ pc = "ready" /\ tr_pc = "done"
    /\ \E token \in DOMAIN token_counter :
         LET pre_token == Utf8Decode(TokenBytes(token, tr_vocab))
         IN  /\ text' = pre_token
             /\ ids' = EncodeWith(pre_token, special_tokens, merges, byte_to_id)
    /\ pc' = "encoded"
    /\ UNCHANGED <<argVars, selfVars, decoded, streamVars, trainVars, driverVars, callVars>>

AgreeNext ==
    \/ TrainSetup
    \/ TrainIter
    \/ TrainExit
    \/ TrainBreak
    \/ PassTrained
    \/ Construct
    \/ EncodeCorpusPreToken

\* train_bpe, then a Tokenizer of its result encodes the pre-tokens of the corpus
AgreeSpec == TrainSpecInit /\ [][AgreeNext]_vars

\* C24: trainer and encoder agree.  A Tokenizer built from the vocabulary and
\* the merge list train_bpe returned encodes every pre-token of the corpus to
\* the id sequence the pre-token has in the frequency table after the last merge.
TrainerEncoderAgree ==
    (pc = "encoded" /\ tr_pc = "done")
        => \A token \in DOMAIN token_counter :
               TokenBytes(token, tr_vocab) = Utf8(text) => ids = token

\* "abab" trained with "<X>" up to two merges, (a, b) then (ab, ab): the
\* Tokenizer encodes "abab" to the one id of the table entry
TrainerEncoderAgreeWitness ==
    /\ pc = "encoded" /\ tr_pc = "done"
    /\ input_text = <<97, 98, 97, 98>>
    /\ tr_special = <<MarkX>>
    /\ Len(tr_merges) = 2
    /\ text = <<97, 98, 97, 98>>
    /\ <<258>> \in DOMAIN token_counter
    /\ ids = <<258>>

(***************************************************************************)
(* Further properties of train_bpe, checked under TrainSpec.               *)
(***************************************************************************)
\* C25: no special tokens, one segment.  With an empty special-token list the
\* frequency table train_bpe starts its loop with is the table of the
\* pre-tokens of the entire text.
WholeTextOneSegment ==
    (tr_pc = "loop" /\ tr_merges = <<>> /\ tr_special = <<>>)
        => token_counter = CountMatches(<<>>, PreTokenize(input_text))

\* the entry r with every new_token_id replaced by the two ids of the pair
RECURSIVE Expand(_, _, _)
Expand(r, best_pair, new_token_id) ==
    IF r = <<>> THEN <<>>
    ELSE (IF Head(r) = new_token_id THEN best_pair ELSE <<Head(r)>>)
         \o Expand(Tail(r), best_pair, new_token_id)

\* r is token with the non-overlapping occurrences of the pair replaced from
\* the left: r expands to token, so that every other id is kept in its place,
\* and nowhere in r the left id of the pair stands before the right id,
\* replaced or not, which a scan from the left would have taken first
IsLeftmostRewrite(token, r, best_pair, new_token_id) ==
    /\ new_token_id \notin Range(token)
    /\ Expand(r, best_pair, new_token_id) = token
    /\ \A i \in 1..(Len(r) - 1) :
           ~(/\ r[i] = best_pair[1]
             /\ \/ r[i + 1] = best_pair[2]
                \/ (r[i + 1] = new_token_id /\ best_pair[1] = best_pair[2]))

\* C26: the rewrite step of training.  A turn of the loop that records the pair
\* (l, r) under the new id N replaces every table entry by its rewrite: the
\* non-overlapping occurrences of the pair, taken from the left, become N (an
\* entry (a, a, a) with the pair (a, a) becomes (N, a)), every other id keeps its
\* place, and an entry of the new table has the summed frequency of the entries
\* rewritten to it.
RewriteLeftmost ==
    [][Len(tr_merges') = Len(tr_merges) + 1 =>
          \E p \in AdjacentPairs(token_counter) :
              /\ tr_merges'[Len(tr_merges')] = <<tr_vocab[p[1]], tr_vocab[p[2]]>>
              /\ \A token \in DOMAIN token_counter :
                     \E r \in DOMAIN token_counter' :
                         IsLeftmostRewrite(token, r, p, next_token_id)
              /\ \A r \in DOMAIN token_counter' :
                     LET from == {token \in DOMAIN token_counter :
                                      IsLeftmostRewrite(token, r, p, next_token_id)}
                     IN  /\ from # {}
                         /\ token_counter'[r] = SumOver(from, token_counter)]_vars

\* "aaa" trained with "<X>": the entry (a, a, a) has been rewritten with the
\* pair (a, a) under the id 257
RewriteLeftmostWitness ==
    /\ input_text = <<97, 97, 97>>
    /\ tr_special = <<MarkX>>
    /\ tr_merges = << <<(<<97>>), (<<97>>)>> >>
    /\ token_counter = (<<257, 97>> :> 1)

(***************************************************************************)
(* Properties of encode_iterable, checked under Spec.  FlushSize stands    *)
(* for the 1024 of lines 208 and 216.                                      *)
(***************************************************************************)
\* C27: streaming buffer discipline.  Each time a chunk has been consumed and
\* its flushes are done the retained buffer holds no newline and at most
\* FlushSize characters; a flush passes to encode a prefix of the buffer and
\* retains the rest: the prefix ending with the last newline when the buffer
\* holds a newline, the first FlushSize characters otherwise.
BufferDiscipline ==
    /\ [](pc \in {"stream_for", "stream_done"} =>
            10 \notin Range(buffer) /\ Len(buffer) <= FlushSize)
    /\ [][pc = "stream_while" =>
            \E n \in 1..Len(buffer) :
                /\ flushed' = Append(flushed, SubSeq(buffer, 1, n))
                /\ buffer' = SubSeq(buffer, n + 1, Len(buffer))
                /\ IF 10 \in Range(buffer)
                   THEN buffer[n] = 10 /\ 10 \notin Range(buffer')
                   ELSE n = FlushSize]_vars

\* "a\n\n" was flushed whole at its last newline; of "e-acute<X>", which has no
\* newline, the first FlushSize characters were flushed and the rest is retained
BufferDisciplineWitness ==
    /\ pc = "stream_for"
    /\ iterable = << <<97, 10, 10>>, <<233, 60, 88, 62>> >>
    /\ chunk_idx = 2
    /\ flushed = << <<97, 10, 10>>, <<233, 60>> >>
    /\ buffer = <<88, 62>>

\* the consumer of the generator takes every id: a step of encode_iterable that
\* can be taken is taken
StreamLiveSpec ==
    /\ Init /\ [][Next]_vars
    /\ WF_<<pc, chunk_idx, buffer>>(StreamPullControl)
    /\ WF_<<pc, chunk_idx, buffer>>(StreamFlushControl)
    /\ WF_<<pc, chunk_idx, buffer>>(StreamEndControl)

\* C28: streaming loses nothing.  encode_iterable on a finite sequence of chunks
\* comes to its end, and the texts it passes to encode, the final remainder
\* included, concatenate to the concatenation of the chunks: at every moment
\* the texts passed so far followed by the buffer are the chunks taken so far.
StreamLosesNothing ==
    /\ [](pc \in {"stream_for", "stream_while"} =>
            Concat(flushed) \o buffer = Concat(SubSeq(iterable, 1, chunk_idx)))
    /\ [](pc \in {"stream_done", "stream_decoded"} =>
            Concat(flushed) = Concat(iterable))
    /\ (pc = "stream_for" ~> pc = "stream_done")

\* encode_iterable(["a\n\n", "e-acute<X>"]) has ended: a flush at the newline,
\* a forced flush and the remainder
StreamLosesNothingWitness ==
    /\ pc = "stream_done"
    /\ iterable = << <<97, 10, 10>>, <<233, 60, 88, 62>> >>
    /\ flushed = << <<97, 10, 10>>, <<233, 60>>, <<88, 62>> >>

\* C29: every id encode returns, and every id encode_iterable yields, is a key of
\* the tokenizer's vocabulary, whatever vocabulary, merge list and
\* special-token list the constructor was given and whatever the text.
IdsInVocabulary ==
    /\ pc \in {"encoded", "decoded"} => Range(ids) \subseteq DOMAIN vocab
    /\ pc \in {"stream_for", "stream_while", "stream_done", "stream_decoded"} =>
           Range(yielded) \subseteq DOMAIN vocab

\* C30: a merged pair is eliminated.  From the rewrite of the turn that records
\* a pair on, no table entry has two adjacent ids whose byte sequences are the
\* pair, also when the pair is (x, x); and no pair is recorded twice in the
\* merge list.
PairEliminated ==
    tr_pc \in {"loop", "done"} =>
        /\ \A token \in DOMAIN token_counter :
               \A i \in 1..(Len(token) - 1) :
                   <<tr_vocab[token[i]], tr_vocab[token[i + 1]]>> \notin Range(tr_merges)
        /\ \A j, k \in 1..Len(tr_merges) : j # k => tr_merges[j] # tr_merges[k]

\* "baaa" trained with "<X>": the pair (a, a) was recorded and replaced once,
\* the third a stays next to the new id
PairEliminatedWitness ==
    /\ tr_pc \in {"loop", "done"}
    /\ input_text = <<98, 97, 97, 97>>
    /\ tr_special = <<MarkX>>
    /\ tr_merges = << <<(<<97>>), (<<97>>)>> >>
    /\ token_counter = (<<98, 257, 97>> :> 1)

====
